---- MODULE Spec2Model ----
(***************************************************************************)
(* Model of rgbkeyboards/corsair/corsair.py, class Corsair: the keypress   *)
(* callback / listener life cycle, the LED colour submissions and the      *)
(* layout query.  The vendor library (cue_sdk) and the input hook          *)
(* (pynput.keyboard.Listener, a threading.Thread) are the environment.     *)
(***************************************************************************)
EXTENDS Integers, Sequences, FiniteSets, TLC

\* ---------------------------------------------------------------- bounds
\* Number of API calls one behaviour makes.
MaxCalls == 6
\* Number of kb.Listener objects one behaviour constructs.
MaxListeners == 3
\* Number of entries of the dictionary handed to set_ind_led_color.
MaxLeds == 2
\* Number of devices the vendor library enumerates.
MaxDevices == 2

VARIABLES
    _callback,    \* self._callback: a Python value, "None" after __init__
    _listener,    \* self._listener: 0 for None, else an index into listeners
    listeners,    \* every kb.Listener constructed so far (the heap)
    pc,           \* where the calling thread is: "idle", or "polling" in the
                  \* busy-wait of enable_key_callback(False)
    submitted,    \* number of library.set_led_colors calls made so far
    lastBatch,    \* the argument of the latest library.set_led_colors call
    devices,      \* the devices the vendor library enumerates
    args,         \* the arguments of the LED call the caller makes
    lastCall,     \* the latest API call that completed, with its arguments
    lastResult,   \* how it completed: the value returned or the exception raised
    ncalls        \* number of API calls completed

vars == <<_callback, _listener, listeners, pc, submitted, lastBatch, devices,
          args, lastCall, lastResult, ncalls>>

keyVars == <<_callback, _listener, listeners, pc>>
ledVars == <<submitted, lastBatch>>

\* ------------------------------------------------------- Python values
\* Arguments a caller may hand to set_key_callback.  "f" and "g" are plain
\* functions; "emptyCallable" is a callable object whose truth value is
\* False (it defines __call__ and __len__ returning 0); "None" and "five"
\* are not callable.
CallbackArgs == {"f", "g", "emptyCallable", "None", "five"}

callable(v) == v \in {"f", "g", "emptyCallable"}

truthy(v) == v \in {"f", "g", "five"}

\* ------------------------------------------------------------ __init__
NoCall == [op |-> "none"]

InitKey ==
    /\ _callback = "None"
    /\ _listener = 0
    /\ listeners = << >>
    /\ pc = "idle"

InitLed ==
    /\ submitted = 0
    /\ lastBatch = << >>

InitCalls ==
    /\ lastCall = NoCall
    /\ lastResult = [exc |-> "none", value |-> "None"]
    /\ ncalls = 0

Init ==
    /\ InitKey
    /\ InitLed
    /\ InitCalls
    /\ devices = << >>
    /\ args = NoCall

\* How a call completes: it returns value v, or raises exception e with
\* message m.
Ok(v) == [exc |-> "none", value |-> v]

Raise(e, m) == [exc |-> e, msg |-> m]

\* A call completes: the caller sees result r of call c.
Return(c, r) ==
    /\ lastCall' = c
    /\ lastResult' = r
    /\ ncalls' = ncalls + 1

\* ----------------------------------------------------------- kb.Listener
\* A listener is a thread: "new" until started, "running" once started,
\* "stopping" once stop() was called on it while running, "dead" after its
\* run() has returned.  Only running and stopping threads are alive.
Listener(cb) == [on_press |-> cb, thread |-> "new"]

is_alive(l) == listeners[l].thread \in {"running", "stopping"}

\* The listener thread, once told to stop, leaves its run() at its own pace.
ListenerExit(l) ==
    /\ listeners[l].thread = "stopping"
    /\ listeners' = [listeners EXCEPT ![l].thread = "dead"]
    /\ UNCHANGED <<_callback, _listener, pc, ledVars, devices, args,
                   lastCall, lastResult, ncalls>>

\* ------------------------------------------------------ set_key_callback
\* set_key_callback without the check of line 137.
set_key_callback_unchecked(callback) ==
    /\ pc = "idle"
    /\ ncalls < MaxCalls
    /\ Len(listeners) < MaxListeners
    /\ _callback' = callback
    /\ listeners' = Append(listeners, [on_press |-> callback, thread |-> "new"])
    /\ _listener' = Len(listeners) + 1
    /\ UNCHANGED pc
    /\ lastCall' = [op |-> "set_key_callback", callback |-> callback]
    /\ lastResult' = [exc |-> "none", value |-> "None"]
    /\ ncalls' = ncalls + 1
    /\ UNCHANGED <<ledVars, devices, args>>

\* set_key_callback constructing a listener only when none is stored yet.
set_key_callback_keeps_listener(callback) ==
    /\ pc = "idle"
    /\ ncalls < MaxCalls
    /\ lastCall' = [op |-> "set_key_callback", callback |-> callback]
    /\ ncalls' = ncalls + 1
    /\ IF ~(callback \in {"f", "g", "emptyCallable"})
       THEN /\ lastResult' = [exc |-> "ValueError",
                              msg |-> "Parameter callback passed not callable"]
            /\ UNCHANGED keyVars
       ELSE /\ Len(listeners) < MaxListeners
            /\ _callback' = callback
            /\ IF _listener = 0
               THEN /\ listeners' = Append(listeners,
                                          [on_press |-> callback, thread |-> "new"])
                    /\ _listener' = Len(listeners) + 1
               ELSE UNCHANGED <<listeners, _listener>>
            /\ UNCHANGED pc
            /\ lastResult' = [exc |-> "none", value |-> "None"]
    /\ UNCHANGED <<ledVars, devices, args>>

\* Lines 131-140.
set_key_callback(callback) ==
    /\ pc = "idle"
    /\ ncalls < MaxCalls
    /\ IF ~callable(callback)
       THEN /\ Return([op |-> "set_key_callback", callback |-> callback],
                      Raise("ValueError", "Parameter callback passed not callable"))
            /\ UNCHANGED keyVars
       ELSE /\ Len(listeners) < MaxListeners
            /\ _callback' = callback
            /\ listeners' = Append(listeners, Listener(callback))
            /\ _listener' = Len(listeners) + 1
            /\ UNCHANGED pc
            /\ Return([op |-> "set_key_callback", callback |-> callback], Ok("None"))
    /\ UNCHANGED <<ledVars, devices, args>>

\* --------------------------------------------------- enable_key_callback
\* enable_key_callback without the checks of lines 148-151: with no listener
\* stored, None.start() and None.stop() raise AttributeError.
enable_key_callback_unchecked(enable) ==
    /\ pc = "idle"
    /\ ncalls < MaxCalls
    /\ LET c == [op |-> "enable_key_callback", enable |-> enable] IN
       IF _listener = 0
       THEN /\ Return(c, Raise("AttributeError", "NoneType has no such attribute"))
            /\ UNCHANGED keyVars
       ELSE IF enable
       THEN IF listeners[_listener].thread = "new"
            THEN /\ listeners' = [listeners EXCEPT ![_listener].thread = "running"]
                 /\ Return(c, Ok("None"))
                 /\ UNCHANGED <<_callback, _listener, pc>>
            ELSE /\ Return(c, Raise("RuntimeError", "threads can only be started once"))
                 /\ UNCHANGED keyVars
       ELSE /\ listeners' =
                 IF listeners[_listener].thread = "running"
                 THEN [listeners EXCEPT ![_listener].thread = "stopping"]
                 ELSE listeners
            /\ pc' = "polling"
            /\ UNCHANGED <<_callback, _listener, lastCall, lastResult, ncalls>>
    /\ UNCHANGED <<ledVars, devices, args>>

\* Lines 148-155: the two checks, then start() or stop().  Thread.start()
\* raises RuntimeError on a thread that was started before; stop() only
\* acts on a running listener.  With enable False the caller goes on to the
\* busy-wait of lines 156-157.
enable_key_callback(enable) ==
    /\ pc = "idle"
    /\ ncalls < MaxCalls
    /\ LET c == [op |-> "enable_key_callback", enable |-> enable] IN
       IF ~truthy(_callback) \/ ~callable(_callback)
       THEN /\ Return(c, Raise("ValueError", "Callback not set. Please use set_key_callback"))
            /\ UNCHANGED keyVars
       ELSE IF _listener = 0
       THEN /\ Return(c, Raise("ValueError", "Callback set but listener not found"))
            /\ UNCHANGED keyVars
       ELSE IF enable
       THEN IF listeners[_listener].thread = "new"
            THEN /\ listeners' = [listeners EXCEPT ![_listener].thread = "running"]
                 /\ Return(c, Ok("None"))
                 /\ UNCHANGED <<_callback, _listener, pc>>
            ELSE /\ Return(c, Raise("RuntimeError", "threads can only be started once"))
                 /\ UNCHANGED keyVars
       ELSE /\ listeners' =
                 IF listeners[_listener].thread = "running"
                 THEN [listeners EXCEPT ![_listener].thread = "stopping"]
                 ELSE listeners
            /\ pc' = "polling"
            /\ UNCHANGED <<_callback, _listener, lastCall, lastResult, ncalls>>
    /\ UNCHANGED <<ledVars, devices, args>>

\* The call returning right after stop(), without the loop of lines 156-157.
poll_no_wait ==
    /\ pc = "polling"
    /\ pc' = "idle"
    /\ Return([op |-> "enable_key_callback", enable |-> FALSE], Ok("None"))
    /\ UNCHANGED <<_callback, _listener, listeners, ledVars, devices, args>>

\* Lines 156-158: one evaluation of the loop condition.  While the listener
\* is alive the caller stays in the loop; otherwise the call returns.
poll ==
    /\ pc = "polling"
    /\ IF is_alive(_listener)
       THEN UNCHANGED <<pc, lastCall, lastResult, ncalls>>
       ELSE /\ pc' = "idle"
            /\ Return([op |-> "enable_key_callback", enable |-> FALSE], Ok("None"))
    /\ UNCHANGED <<_callback, _listener, listeners, ledVars, devices, args>>

NextKey ==
    \/ \E cb \in CallbackArgs : set_key_callback(cb)
    \/ \E en \in BOOLEAN : enable_key_callback(en)
    \/ poll
    \/ \E l \in 1..Len(listeners) : ListenerExit(l)

SpecKey == Init /\ [][NextKey]_vars

\* ------------------------------------------------------------- keys table
\* The key-name table of rgbkeyboards/corsair/keys.py: key name to vendor
\* LED identifier, 0 for a key without an addressable LED.  KeyOrder is the
\* order in which the dictionary is iterated.
KeyOrder == <<"Escape", "F1", "Fn">>

keys == [k \in {"Escape", "F1", "Fn"} |->
            IF k = "Escape" THEN 1 ELSE IF k = "F1" THEN 2 ELSE 0]

\* Python values handed in as colour channels: ints, and one str.
PyInt(n) == [type |-> "int", v |-> n]

PyStr == [type |-> "str", v |-> 0]

ChannelArgs == {PyInt(n) : n \in {-1, 0, 1, 128, 254, 255, 256}} \cup {PyStr}

isinstance_int(x) == x.type = "int"

CorsairLedColor(ledId, r, g, b) == [ledId |-> ledId, r |-> r, g |-> g, b |-> b]

\* library.set_led_colors(batch): one submission to the vendor library.
set_led_colors(batch) ==
    /\ submitted' = submitted + 1
    /\ lastBatch' = batch

\* ----------------------------------------------------- set_full_led_color
\* The comprehension of line 107 leaving out the keys without a LED, as
\* set_ind_led_color does.
RECURSIVE full_batch_skip(_, _, _, _)
full_batch_skip(names, r, g, b) ==
    IF names = << >>
    THEN << >>
    ELSE IF keys[Head(names)] = 0
    THEN full_batch_skip(Tail(names), r, g, b)
    ELSE <<CorsairLedColor(keys[Head(names)], r, g, b)>>
            \o full_batch_skip(Tail(names), r, g, b)

\* Line 107: [CorsairLedColor(i, r, g, b) for i in keys.values()]
RECURSIVE full_batch(_, _, _, _)
full_batch(names, r, g, b) ==
    IF names = << >>
    THEN << >>
    ELSE <<CorsairLedColor(keys[Head(names)], r, g, b)>>
            \o full_batch(Tail(names), r, g, b)

\* The range check with both ends included.
in_range_inclusive(x) == 0 <= x.v /\ x.v <= 255

\* Line 105: 0 < x < 255
in_range(x) == 0 < x.v /\ x.v < 255

set_full_led_color(r, g, b) ==
    /\ pc = "idle"
    /\ ncalls < MaxCalls
    /\ LET c == [op |-> "set_full_led_color", r |-> r, g |-> g, b |-> b] IN
       IF ~isinstance_int(r) \/ ~isinstance_int(g) \/ ~isinstance_int(b)
       THEN /\ Return(c, Raise("ValueError", "Parameters passed not all int type"))
            /\ UNCHANGED ledVars
       ELSE IF ~in_range(r) \/ ~in_range(g) \/ ~in_range(b)
       THEN /\ Return(c, Raise("ValueError", "Parameters not within range"))
            /\ UNCHANGED ledVars
       ELSE /\ set_led_colors(full_batch(KeyOrder, r.v, g.v, b.v))
            /\ Return(c, Ok("True"))
    /\ UNCHANGED <<keyVars, devices, args>>

\* ------------------------------------------------------ set_ind_led_color
\* Values of the dictionary: a tuple of three, a tuple of two, a list.
ValueArgs == {[type |-> "tuple", items |-> <<10, 20, 30>>],
              [type |-> "tuple", items |-> <<10, 20>>],
              [type |-> "list", items |-> <<10, 20, 30>>]}

KeyArgs == DOMAIN keys \cup {"Bogus"}

\* Dictionaries as their items in iteration order: no key twice.
RECURSIVE ItemLists(_)
ItemLists(n) ==
    IF n = 0
    THEN {<< >>}
    ELSE LET shorter == ItemLists(n - 1) IN
         shorter \cup
         {Append(items, <<k, v>>) :
             items \in {s \in shorter : Len(s) = n - 1},
             k \in KeyArgs, v \in ValueArgs}

NoKeyTwice(items) ==
    \A i, j \in DOMAIN items : items[i][1] = items[j][1] => i = j

LedsArgs ==
    {[type |-> "dict", items |-> items] :
        items \in {s \in ItemLists(MaxLeds) : NoKeyTwice(s)}}
    \cup {[type |-> "list", items |-> << >>]}

\* Lines 118-128: the loop over leds.items(), from the entries left and
\* the batch built so far to the exception raised (if any) and the batch.
RECURSIVE ind_loop(_, _)
ind_loop(items, parameter) ==
    IF items = << >>
    THEN [exc |-> "none", parameter |-> parameter]
    ELSE LET key == items[1][1]
             value == items[1][2]
         IN  IF key \notin DOMAIN keys
             THEN [exc |-> "Invalid key found", parameter |-> parameter]
             ELSE IF value.type # "tuple"
             THEN [exc |-> "Value found for key not tuple", parameter |-> parameter]
             ELSE IF Len(value.items) # 3
             THEN [exc |-> "Value found for key not with length 3",
                   parameter |-> parameter]
             ELSE IF keys[key] = 0
             THEN ind_loop(Tail(items), parameter)
             ELSE ind_loop(Tail(items),
                           Append(parameter,
                                  CorsairLedColor(keys[key], value.items[1],
                                                  value.items[2], value.items[3])))

\* set_ind_led_color handing the entries built so far to the library before
\* it raises.
set_ind_led_color_partial(leds) ==
    /\ pc = "idle"
    /\ ncalls < MaxCalls
    /\ LET c == [op |-> "set_ind_led_color", leds |-> leds] IN
       IF leds.type # "dict"
       THEN /\ Return(c, Raise("ValueError", "Parameter leds is not a dictionary"))
            /\ UNCHANGED ledVars
       ELSE LET done == ind_loop(leds.items, << >>) IN
            /\ set_led_colors(done.parameter)
            /\ IF done.exc # "none"
               THEN Return(c, Raise("ValueError", done.exc))
               ELSE Return(c, Ok("True"))
    /\ UNCHANGED <<keyVars, devices, args>>

\* Lines 109-129.
set_ind_led_color(leds) ==
    /\ pc = "idle"
    /\ ncalls < MaxCalls
    /\ LET c == [op |-> "set_ind_led_color", leds |-> leds] IN
       IF leds.type # "dict"
       THEN /\ Return(c, Raise("ValueError", "Parameter leds is not a dictionary"))
            /\ UNCHANGED ledVars
       ELSE LET done == ind_loop(leds.items, << >>) IN
            IF done.exc # "none"
            THEN /\ Return(c, Raise("ValueError", done.exc))
                 /\ UNCHANGED ledVars
            ELSE /\ set_led_colors(done.parameter)
                 /\ Return(c, Ok("True"))
    /\ UNCHANGED <<keyVars, devices, args>>

\* The LED operations keep no state of their own: the caller's arguments
\* are drawn once and the call is made with them, any number of times.
FullArgs == [op : {"set_full_led_color"},
             r : ChannelArgs, g : ChannelArgs, b : ChannelArgs]

IndArgs == [op : {"set_ind_led_color"}, leds : LedsArgs]

InitLedCalls ==
    /\ InitKey
    /\ InitLed
    /\ InitCalls
    /\ devices = << >>
    /\ args \in FullArgs \cup IndArgs

NextLed ==
    \/ /\ args.op = "set_full_led_color"
       /\ set_full_led_color(args.r, args.g, args.b)
    \/ /\ args.op = "set_ind_led_color"
       /\ set_ind_led_color(args.leds)

SpecLed == InitLedCalls /\ [][NextLed]_vars

\* -------------------------------------------------------------- get_layout
\* Device types of the vendor library: mouse 1, keyboard 2, headset 3.
DeviceTypes == {1, 2, 3}

\* The device type line 50 looks for.
Keyboard == 2

\* Physical layout codes the vendor library reports.
LayoutCodes == {1, 2, 7}

DeviceInfo == [type : DeviceTypes, physicalLayout : LayoutCodes]

RECURSIVE DeviceLists(_)
DeviceLists(n) ==
    IF n = 0
    THEN {<< >>}
    ELSE LET shorter == DeviceLists(n - 1) IN
         shorter \cup
         {Append(ds, d) : ds \in {s \in shorter : Len(s) = n - 1}, d \in DeviceInfo}

\* library.get_device_count() and library.get_device_info(i), i from 0.
get_device_count == Len(devices)

get_device_info(i) == devices[i + 1]

\* Line 51 calls get_device_info() without an index: the index defaults to 0.
get_device_info_default == get_device_info(0)

\* Lines 48-52: the loop, from index i on; the value of results after it.
RECURSIVE layout_loop(_)
layout_loop(i) ==
    IF i >= get_device_count
    THEN [found |-> FALSE]
    ELSE IF get_device_info(i).type = Keyboard
    THEN [found |-> TRUE, results |-> get_device_info_default]
    ELSE layout_loop(i + 1)

get_layout ==
    /\ pc = "idle"
    /\ ncalls < MaxCalls
    /\ LET results == layout_loop(0) IN
       IF ~results.found
       THEN Return([op |-> "get_layout"],
                   Raise("ValueError", "Could not detect a Corsair keyboard"))
       ELSE Return([op |-> "get_layout"], Ok(results.results.physicalLayout))
    /\ UNCHANGED <<keyVars, ledVars, devices, args>>

InitLayout ==
    /\ InitKey
    /\ InitLed
    /\ InitCalls
    /\ devices \in DeviceLists(MaxDevices)
    /\ args = NoCall

NextLayout == get_layout

SpecLayout == InitLayout /\ [][NextLayout]_vars

\* ================================================================ claims
\* The life-cycle state of section 4.1, read off the adapter's fields.
State ==
    IF _listener = 0 THEN "Unregistered"
    ELSE IF is_alive(_listener) THEN "Running"
    ELSE "RegisteredStopped"

AliveListeners == {l \in 1..Len(listeners) : is_alive(l)}

\* A step in which an API call completes.
CallCompletes == ncalls' = ncalls + 1

\* C1: when enable_key_callback(False) has returned control to the caller,
\* the listener the adapter holds is not alive, whatever the interleaving
\* of the caller's polling and the listener thread's exit.
C1_DisableReturnsAfterListenerDied ==
    (/\ pc = "idle"
     /\ lastCall.op = "enable_key_callback"
     /\ ~lastCall.enable
     /\ _listener # 0)
        => ~is_alive(_listener)

\* A disable call that returned, on a listener that was running when it
\* was told to stop.
C1_Witness ==
    /\ pc = "idle"
    /\ lastCall.op = "enable_key_callback"
    /\ ~lastCall.enable
    /\ lastResult.exc = "none"
    /\ _listener # 0
    /\ listeners[_listener].thread = "dead"

\* C2: never more than one listener thread created by the adapter is alive.
C2_AtMostOneListenerAlive == Cardinality(AliveListeners) <= 1

\* C3: enable_key_callback(True), called in Registered-Stopped with a
\* callback the adapter takes as set, leaves the adapter Running; this
\* covers the second enable of an enable / disable / enable sequence.
C3_EnableFromStoppedRuns ==
    [][(/\ CallCompletes
        /\ lastCall'.op = "enable_key_callback"
        /\ lastCall'.enable
        /\ truthy(_callback)
        /\ State = "RegisteredStopped")
           => State' = "Running"]_vars

\* C4: set_key_callback with a non-callable argument raises ValueError and
\* leaves the callback, the listener reference and every listener as they
\* were.
C4_RejectedCallbackChangesNothing ==
    [][(/\ CallCompletes
        /\ lastCall'.op = "set_key_callback"
        /\ ~callable(lastCall'.callback))
           => /\ lastResult'.exc = "ValueError"
              /\ UNCHANGED <<_callback, _listener, listeners>>]_vars

\* A rejected set_key_callback while a listener is running.
C4_Witness ==
    /\ lastCall.op = "set_key_callback"
    /\ ~callable(lastCall.callback)
    /\ lastResult.exc = "ValueError"
    /\ State = "Running"

\* C5: enable_key_callback(True) on an adapter on which no set_key_callback
\* call has succeeded raises ValueError, and the adapter stays Unregistered
\* with no listener alive.
C5_EnableWithoutCallbackFails ==
    (/\ lastCall.op = "enable_key_callback"
     /\ lastCall.enable
     /\ listeners = << >>)
        => /\ lastResult.exc = "ValueError"
           /\ _callback = "None"
           /\ State = "Unregistered"
           /\ AliveListeners = {}

\* enable_key_callback(True) has failed on an adapter without listeners,
\* after a set_key_callback call that was rejected.
C5_Witness ==
    /\ lastCall.op = "enable_key_callback"
    /\ lastCall.enable
    /\ listeners = << >>
    /\ lastResult.exc = "ValueError"
    /\ ncalls >= 2

AllInts(a) == isinstance_int(a.r) /\ isinstance_int(a.g) /\ isinstance_int(a.b)

\* C6: set_full_led_color with every channel in 1..254 makes one submission
\* per call, a batch with one entry per key of the key table, each entry
\* carrying (r, g, b).
C6_FullColorOneEntryPerKey ==
    (/\ args.op = "set_full_led_color"
     /\ ncalls > 0
     /\ AllInts(args)
     /\ \A x \in {args.r, args.g, args.b} : x.v \in 1..254)
        => /\ lastResult.exc = "none"
           /\ submitted = ncalls
           /\ Len(lastBatch) = Cardinality(DOMAIN keys)
           /\ \A k \in DOMAIN keys :
                 Cardinality({i \in DOMAIN lastBatch : lastBatch[i].ledId = keys[k]})
                    = Cardinality({k2 \in DOMAIN keys : keys[k2] = keys[k]})
           /\ \A i \in DOMAIN lastBatch :
                 /\ lastBatch[i].r = args.r.v
                 /\ lastBatch[i].g = args.g.v
                 /\ lastBatch[i].b = args.b.v

\* set_full_led_color(1, 254, 128) has submitted its batch.
C6_Witness ==
    /\ args.op = "set_full_led_color"
    /\ args.r = PyInt(1) /\ args.g = PyInt(254) /\ args.b = PyInt(128)
    /\ ncalls > 0
    /\ submitted > 0
    /\ Len(lastBatch) = Len(KeyOrder)

HasUnknownKey(leds) ==
    /\ leds.type = "dict"
    /\ \E i \in DOMAIN leds.items : leds.items[i][1] \notin DOMAIN keys

\* C8: set_ind_led_color with a dictionary holding an unknown key name
\* raises ValueError and submits nothing, wherever the unknown key sits.
C8_UnknownKeySubmitsNothing ==
    (/\ args.op = "set_ind_led_color"
     /\ ncalls > 0
     /\ HasUnknownKey(args.leds))
        => /\ lastResult.exc = "ValueError"
           /\ submitted = 0
           /\ lastBatch = << >>

\* The call was made with a valid entry of a key with a LED ahead of the
\* unknown key, and has raised.
C8_Witness ==
    /\ args.op = "set_ind_led_color"
    /\ args.leds.type = "dict"
    /\ Len(args.leds.items) = 2
    /\ args.leds.items[1] = <<"Escape", [type |-> "tuple", items |-> <<10, 20, 30>>]>>
    /\ args.leds.items[2][1] = "Bogus"
    /\ ncalls > 0
    /\ lastResult.exc = "ValueError"

IsKeyboard(i) == devices[i].type = Keyboard

FirstKeyboard ==
    CHOOSE i \in DOMAIN devices : IsKeyboard(i) /\ \A j \in 1..(i - 1) : ~IsKeyboard(j)

\* C9: get_layout over a device list holding a keyboard returns the
\* physical layout of the first keyboard of the list.
C9_LayoutOfFirstKeyboard ==
    (/\ lastCall.op = "get_layout"
     /\ \E i \in DOMAIN devices : IsKeyboard(i))
        => lastResult = Ok(devices[FirstKeyboard].physicalLayout)

\* C10: the stored callback and the stored listener are both absent or
\* both present, the stored listener is the one constructed for the stored
\* callback, and no call has raised "Callback set but listener not found".
C10_CallbackAndListenerPaired ==
    /\ (_callback = "None") <=> (_listener = 0)
    /\ _listener # 0 => listeners[_listener].on_press = _callback
    /\ lastResult.exc # "none" => lastResult.msg # "Callback set but listener not found"

\* A second callback has replaced the first while the first listener runs,
\* and enable_key_callback has then been called with success.
C10_Witness ==
    /\ Len(listeners) >= 2
    /\ _listener = 2
    /\ listeners[1].on_press # listeners[2].on_press
    /\ is_alive(1)
    /\ lastCall.op = "enable_key_callback"
    /\ lastResult.exc = "none"

====
